---- MODULE Spec2Model ----
(***************************************************************************)
(* Model of the AI AppointmentsPro browser demo.                           *)
(*                                                                         *)
(*   - lstm.js (main thread) and lstm.worker.js (worker thread): the       *)
(*     train / predict message protocol of the text model;                 *)
(*   - functions.js + index.js: the numeric model's trainModel, its        *)
(*     callbacks and the predict form;                                     *)
(*   - prepareTrainingData (functions.js) and buildDataset                 *)
(*     (lstm.worker.js): oversampling, Fisher-Yates shuffle, split.        *)
(*   - evalSet (lstm.worker.js) and evaluateAccuracy (functions.js): the   *)
(*     counters and the percentages they return;                           *)
(*   - cleanText, normalizeData and denormalizeData as functions.          *)
(*                                                                         *)
(* Number expressions (percentages, cut indices, toFixed, normalisation)   *)
(* are computed as JavaScript computes them, in IEEE-754 doubles.          *)
(*                                                                         *)
(* The external predictor (brain.js) is opaque: train may invoke its       *)
(* callback any number of times with increasing iteration counts and then  *)
(* return or throw; run may return any output or throw.                    *)
(***************************************************************************)
EXTENDS Integers, Sequences, FiniteSets, TLC

(***************************************************************************)
(* Bounds of the model.                                                    *)
(***************************************************************************)
\* number of trainLstm calls (worker objects ever created)
MaxRuns == 2
\* number of predictFromText calls (promises ever created)
MaxPredicts == 2
\* number of times the predictor invokes the training callback in one run
MaxCallbacks == 2
\* number of records prepareTrainingData is given
MaxRecords == 3
\* number of records buildDataset is given
MaxSplitRecords == 4
\* number of records an evaluator is given
MaxEvalRecords == 3
\* length of the strings cleanText is given
MaxTextLen == 5
\* largest whole number normalizeData is given as a bound
MaxValue == 3
\* largest record count the cut indices of buildDataset are computed for
MaxCount == 100

(***************************************************************************)
(* Program constants.                                                      *)
(***************************************************************************)
\* lstm.worker.js: const ITERATIONS = 300; const LOG_PERIOD = 30;
ITERATIONS_LSTM == 300
LOG_PERIOD_LSTM == 30
\* functions.js trainModel: const ITERATIONS = 5000; const LOG_PERIOD = 250;
ITERATIONS_NN == 5000
LOG_PERIOD_NN == 250
\* functions.js prepareTrainingData: const OVERSAMPLE_FACTOR = 3;
OVERSAMPLE_FACTOR == 3

VARIABLES
    worker,      \* lstm.js `worker`: 0 is null, else the id of the Worker object
    trained,     \* lstm.js lstmState.trained
    workers,     \* the Worker objects ever created and their worker threads
    promises,    \* the promises returned by predictFromText
    nextPromise, \* id of the next promise
    trainBtn,    \* index.js #lstmTrainBtn: "idle", "training", "trained", "retry"
    card,        \* index.js #lstmPredictCard has class 'enabled'
    doneCalls,   \* onDone invocations since the last trainLstm call
    errorCalls,  \* onError invocations since the last trainLstm call
    nnBtn,       \* index.js #trainBtn: "idle", "training", "trained", "retry"
    nnTimers,    \* setTimeout callbacks of trainModel not yet run
    nnCalls,     \* number of trainModel calls so far
    nnNet,       \* myBrain.net: "fresh", "failed" (train threw), "trained"
    nnProgress,  \* what onProgress received during the last trainModel call
    nnDone,      \* onDone invocations of the last trainModel call
    nnError,     \* onError invocations of the last trainModel call
    nnCard,      \* index.js #predictCard has class 'enabled'
    nnVerdict,   \* index.js result panel: "none", "will-show", "no-show"
    nnUncaught,  \* an exception left an event handler of index.js uncaught
    RAW_DATA,    \* the records: RAW_DATA[r] is the noshow label of record r
    samples,     \* prepareTrainingData `samples`: the records of its entries
    trainingData, \* myBrain.trainingData
    prepPc,      \* prepareTrainingData: "start", "shuffle", "assign", "done"
    all,         \* buildDataset `all`: the records of its samples
    rawTrain,    \* buildDataset `rawTrain`
    train,       \* buildDataset `train`
    validation,  \* buildDataset `validation`
    test,        \* buildDataset `test`
    splitPc,     \* buildDataset: "start", "shuffleAll", "slice",
                 \* "shuffleTrain", "return", "done"
    loopI,       \* the index i of the running shuffle loop
    evalKind,    \* which evaluator runs: "text" (evalSet), "numeric" (evaluateAccuracy)
    evalI,       \* forEach of the evaluator: number of records already visited
    tally,       \* the evaluator's counters correct, tpShow, fnShow, tpNoshow, fnNoshow
    predicted,   \* the class the evaluator derived for each record visited
    evalPc,      \* the evaluator: "loop", "done", "threw" (net.run threw)
    evalResult,  \* the object the evaluator returned
    cleanStr,    \* the string cleanText is given first
    cleaned,     \* what the cleanText calls returned, each given the result
                 \* of the one before
    normValue,   \* the value normalizeData is given
    normMin,     \* the bound `min` of both calls
    normMax,     \* the bound `max` of both calls
    normalized,  \* what normalizeData returned
    denormalized, \* what denormalizeData returned for `normalized`
    normPc,      \* "start", "normalized", "done"
    count,       \* buildDataset all.length when the cut indices are computed
    trainEnd,    \* buildDataset `trainEnd`, -1 before it is computed
    valEnd       \* buildDataset `valEnd`, -1 before it is computed

lstmVars == <<worker, trained, workers, promises, nextPromise, trainBtn, card,
              doneCalls, errorCalls>>

nnVars == <<nnBtn, nnTimers, nnCalls, nnNet, nnProgress, nnDone, nnError,
            nnCard, nnVerdict, nnUncaught>>

prepVars == <<samples, trainingData, prepPc>>

splitVars == <<all, rawTrain, train, validation, test, splitPc>>

evalVars == <<evalKind, evalI, tally, predicted, evalPc, evalResult>>

cleanVars == <<cleanStr, cleaned>>

normVars == <<normValue, normMin, normMax, normalized, denormalized, normPc>>

sizeVars == <<count, trainEnd, valEnd>>

pureVars == <<evalVars, cleanVars, normVars, sizeVars>>

dataVars == <<RAW_DATA, prepVars, splitVars, loopI, pureVars>>

vars == <<lstmVars, nnVars, dataVars>>

WorkerIds == 1..MaxRuns
PromiseIds == 1..MaxPredicts

(***************************************************************************)
(* Small helpers.                                                          *)
(***************************************************************************)
Min(a, b) == IF a < b THEN a ELSE b

RECURSIVE SeqFilter(_, _)
SeqFilter(s, keep) ==
    IF s = <<>> THEN <<>>
    ELSE IF Head(s) \in keep THEN <<Head(s)>> \o SeqFilter(Tail(s), keep)
         ELSE SeqFilter(Tail(s), keep)

Inc2(n) == Min(2, n + 1)

(***************************************************************************)
(* JavaScript numbers.  A natural number of any size is the sequence of    *)
(* its digits in base Base, least significant first, the last one not 0    *)
(* (zero is the empty sequence).  A number is [neg, m, e]: m * 2^e,        *)
(* negated when neg, with m odd (or m zero and e = 0), so that equal       *)
(* numbers are equal records.  A double is a number whose m has at most    *)
(* MantissaBits binary digits; the exponent is not bounded: overflow,      *)
(* subnormal numbers, NaN operands and -0 are not part of the model.       *)
(***************************************************************************)
\* the binary digits of the significand of an IEEE-754 double
MantissaBits == 53

\* binary digits in one digit of a natural number; Base is 2^DigitBits
DigitBits == 15
Base == 32768

RECURSIVE Pow2(_)
Pow2(n) == IF n = 0 THEN 1 ELSE 2 * Pow2(n - 1)

RECURSIVE BigOfNat(_)
BigOfNat(n) == IF n = 0 THEN <<>> ELSE <<n % Base>> \o BigOfNat(n \div Base)

RECURSIVE NatOfBig(_)
NatOfBig(b) == IF b = <<>> THEN 0 ELSE b[1] + Base * NatOfBig(Tail(b))

\* drop the zeros above the most significant digit
RECURSIVE BigTrim(_)
BigTrim(b) ==
    IF b # <<>> /\ b[Len(b)] = 0 THEN BigTrim(SubSeq(b, 1, Len(b) - 1)) ELSE b

RECURSIVE BigAddCarry(_, _, _)
BigAddCarry(a, b, c) ==
    IF a = <<>> /\ b = <<>> THEN (IF c = 0 THEN <<>> ELSE <<c>>)
    ELSE LET s == (IF a = <<>> THEN 0 ELSE a[1]) + (IF b = <<>> THEN 0 ELSE b[1]) + c
         IN  <<s % Base>> \o
             BigAddCarry(IF a = <<>> THEN <<>> ELSE Tail(a),
                         IF b = <<>> THEN <<>> ELSE Tail(b),
                         s \div Base)

BigAdd(a, b) == BigAddCarry(a, b, 0)

RECURSIVE BigSubBorrow(_, _, _)
BigSubBorrow(a, b, c) ==
    IF a = <<>> THEN <<>>
    ELSE LET d == a[1] - (IF b = <<>> THEN 0 ELSE b[1]) - c
         IN  <<IF d < 0 THEN d + Base ELSE d>> \o
             BigSubBorrow(Tail(a), IF b = <<>> THEN <<>> ELSE Tail(b),
                          IF d < 0 THEN 1 ELSE 0)

\* a - b for a >= b
BigSub(a, b) == BigTrim(BigSubBorrow(a, b, 0))

RECURSIVE BigLess(_, _)
BigLess(a, b) ==
    IF Len(a) # Len(b) THEN Len(a) < Len(b)
    ELSE IF a = <<>> THEN FALSE
    ELSE IF a[Len(a)] # b[Len(b)] THEN a[Len(a)] < b[Len(b)]
    ELSE BigLess(BigTrim(SubSeq(a, 1, Len(a) - 1)),
                 BigTrim(SubSeq(b, 1, Len(b) - 1)))

\* a * k + c for one digit k and a carry c below Base
RECURSIVE BigMulDigit(_, _, _)
BigMulDigit(a, k, c) ==
    IF a = <<>> THEN (IF c = 0 THEN <<>> ELSE <<c>>)
    ELSE <<(a[1] * k + c) % Base>> \o
         BigMulDigit(Tail(a), k, (a[1] * k + c) \div Base)

RECURSIVE BigMul(_, _)
BigMul(a, b) ==
    IF a = <<>> \/ b = <<>> THEN <<>>
    ELSE BigTrim(BigAdd(BigMulDigit(b, a[1], 0), <<0>> \o BigMul(Tail(a), b)))

\* the largest digit d in lo..hi with b * d <= r, given b * lo <= r
RECURSIVE QuotientDigit(_, _, _, _)
QuotientDigit(r, b, lo, hi) ==
    IF lo = hi THEN lo
    ELSE LET mid == (lo + hi + 1) \div 2
         IN  IF BigLess(r, BigTrim(BigMulDigit(b, mid, 0)))
             THEN QuotientDigit(r, b, lo, mid - 1)
             ELSE QuotientDigit(r, b, mid, hi)

\* quotient q and remainder r of a by b > 0
RECURSIVE BigDivMod(_, _)
BigDivMod(a, b) ==
    IF a = <<>> THEN [q |-> <<>>, r |-> <<>>]
    ELSE LET rest == BigDivMod(Tail(a), b)
             r2 == BigTrim(<<a[1]>> \o rest.r)
             d == QuotientDigit(r2, b, 0, Base - 1)
         IN  [q |-> BigTrim(<<d>> \o rest.q),
              r |-> BigSub(r2, BigTrim(BigMulDigit(b, d, 0)))]

\* the number of binary digits of a digit and of a natural number
RECURSIVE DigitLen(_)
DigitLen(d) == IF d = 0 THEN 0 ELSE 1 + DigitLen(d \div 2)

BitLen(a) ==
    IF a = <<>> THEN 0 ELSE DigitBits * (Len(a) - 1) + DigitLen(a[Len(a)])

\* binary digit i of a, the least significant being digit 1
Bit(a, i) ==
    LET at == (i - 1) \div DigitBits + 1
    IN  IF at > Len(a) THEN 0 ELSE (a[at] \div Pow2((i - 1) % DigitBits)) % 2

\* a * 2^k and floor(a / 2^k)
BigShl(a, k) ==
    IF a = <<>> THEN <<>>
    ELSE [i \in 1..(k \div DigitBits) |-> 0] \o BigMulDigit(a, Pow2(k % DigitBits), 0)

BigShr(a, k) ==
    IF k \div DigitBits >= Len(a) THEN <<>>
    ELSE BigDivMod(SubSeq(a, k \div DigitBits + 1, Len(a)),
                   <<Pow2(k % DigitBits)>>).q

Zero == [neg |-> FALSE, m |-> <<>>, e |-> 0]

\* the number of binary zeros a digit d > 0 ends with
RECURSIVE LowZeros(_)
LowZeros(d) == IF d % 2 = 1 THEN 0 ELSE 1 + LowZeros(d \div 2)

\* the record of m * 2^e: the binary zeros m ends with go to the exponent
RECURSIVE Canon(_)
Canon(x) ==
    IF x.m = <<>> THEN Zero
    ELSE IF x.m[1] = 0 THEN Canon([x EXCEPT !.m = Tail(@), !.e = @ + DigitBits])
    ELSE IF x.m[1] % 2 = 0
         THEN [x EXCEPT !.m = BigShr(@, LowZeros(x.m[1])), !.e = @ + LowZeros(x.m[1])]
         ELSE x

\* the number k * 2^e for integers k and e
NumOf(k, e) ==
    Canon([neg |-> k < 0, m |-> BigOfNat(IF k < 0 THEN -k ELSE k), e |-> e])

\* the exact product, sum and difference of two numbers
ExactMul(x, y) ==
    Canon([neg |-> x.neg # y.neg, m |-> BigMul(x.m, y.m), e |-> x.e + y.e])

ExactAdd(x, y) ==
    LET e == IF x.e < y.e THEN x.e ELSE y.e
        a == BigShl(x.m, x.e - e)
        b == BigShl(y.m, y.e - e)
    IN  IF x.neg = y.neg
        THEN Canon([neg |-> x.neg, m |-> BigAdd(a, b), e |-> e])
        ELSE IF BigLess(a, b)
             THEN Canon([neg |-> y.neg, m |-> BigSub(b, a), e |-> e])
             ELSE Canon([neg |-> x.neg, m |-> BigSub(a, b), e |-> e])

Negate(x) == IF x.m = <<>> THEN x ELSE [x EXCEPT !.neg = ~@]

ExactSub(x, y) == ExactAdd(x, Negate(y))

\* the double nearest to x, the one with an even significand of two
\* equally near
RoundToDouble(x) ==
    IF BitLen(x.m) <= MantissaBits THEN x
    ELSE LET k == BitLen(x.m) - MantissaBits
             q == BigShr(x.m, k)
             up == /\ Bit(x.m, k) = 1
                   /\ \/ q[1] % 2 = 1
                      \/ \E i \in 1..(k - 1) : Bit(x.m, i) = 1
         IN  Canon([neg |-> x.neg,
                    m |-> IF up THEN BigAdd(q, <<1>>) ELSE q,
                    e |-> x.e + k])

\* the JavaScript operators *, +, - and / on doubles (y # 0 for /): the
\* exact result rounded to the nearest double.  The quotient is cut after
\* at least MantissaBits + 2 binary digits and given one more, a 1 when
\* the division leaves a remainder
DoubleMul(x, y) == RoundToDouble(ExactMul(x, y))
DoubleAdd(x, y) == RoundToDouble(ExactAdd(x, y))
DoubleSub(x, y) == RoundToDouble(ExactSub(x, y))

DoubleDiv(x, y) ==
    IF x.m = <<>> THEN Zero
    ELSE LET need == MantissaBits + 2 + BitLen(y.m) - BitLen(x.m)
             s == IF need > 0 THEN need ELSE 0
             d == BigDivMod(BigShl(x.m, s), y.m)
         IN  RoundToDouble(Canon(
                 [neg |-> x.neg # y.neg,
                  m |-> BigAdd(BigShl(d.q, 1), IF d.r = <<>> THEN <<>> ELSE <<1>>),
                  e |-> x.e - y.e - s - 1]))

\* Math.floor(x) for x >= 0
MathFloor(x) ==
    IF x.e >= 0 THEN NatOfBig(BigShl(x.m, x.e)) ELSE NatOfBig(BigShr(x.m, -x.e))

\* Math.round(x) for x >= 0: floor(x + 0.5), of the exact sum
MathRound(x) == MathFloor(ExactAdd(x, NumOf(1, -1)))

\* the double a decimal literal denotes: the one nearest to num / den
Decimal(num, den) == DoubleDiv(NumOf(num, 0), NumOf(den, 0))

\* |x|
NumAbs(x) == [x EXCEPT !.neg = FALSE]

\* x < y
NumLess(x, y) == ExactSub(x, y).neg

(***************************************************************************)
(* Text helpers: strings are sequences of one-character strings.           *)
(***************************************************************************)
UpperChars == {"A", "N", "Z"}
LowerChars == {"a", "b", "n", "o", "y", "z"}
DigitChars == {"1"}
SpaceChars == {" ", "\t"}
OtherChars == {"!", "-"}
Chars == UpperChars \cup LowerChars \cup DigitChars \cup SpaceChars \cup OtherChars

\* String.prototype.toLowerCase, on the characters of the model
ToLowerChar(c) ==
    CASE c = "A" -> "a"
      [] c = "Z" -> "z"
      [] c = "N" -> "n"
      [] OTHER -> c

ToLowerCase(s) == [i \in 1..Len(s) |-> ToLowerChar(s[i])]

\* replace(/[^a-z0-9\s]/g, '')
StripOther(s) == SeqFilter(s, LowerChars \cup DigitChars \cup SpaceChars)

\* replace(/\s+/g, ' ')
RECURSIVE CollapseSpaces(_)
CollapseSpaces(s) ==
    IF s = <<>> THEN <<>>
    ELSE IF Head(s) \in SpaceChars
         THEN IF Len(s) > 1 /\ s[2] \in SpaceChars
              THEN CollapseSpaces(Tail(s))
              ELSE <<" ">> \o CollapseSpaces(Tail(s))
         ELSE <<Head(s)>> \o CollapseSpaces(Tail(s))

\* String.prototype.trim
RECURSIVE TrimLeft(_)
TrimLeft(s) ==
    IF s # <<>> /\ Head(s) \in SpaceChars THEN TrimLeft(Tail(s)) ELSE s

RECURSIVE TrimRight(_)
TrimRight(s) ==
    IF s # <<>> /\ s[Len(s)] \in SpaceChars
    THEN TrimRight(SubSeq(s, 1, Len(s) - 1)) ELSE s

Trim(s) == TrimRight(TrimLeft(s))

\* a plausible slip: whitespace is collapsed before the other characters
\* are stripped
cleanTextCollapseFirst(text) == Trim(StripOther(CollapseSpaces(ToLowerCase(text))))

\* lstm.js / lstm.worker.js cleanText
cleanText(text) == Trim(CollapseSpaces(StripOther(ToLowerCase(text))))

\* out.toLowerCase().trim().startsWith('n')
StartsWithN(out) ==
    LET t == Trim(ToLowerCase(out)) IN t # <<>> /\ Head(t) = "n"

\* raw texts a caller passes to predictFromText
TextInputs == { <<"A", "b">>, <<" ", "z", "!", "\t", " ", "1">> }

\* what net.run may return: null (modelled by the string it becomes after
\* `|| ''`), a "no"-like output, a "yes"-like output
RunOutputs == { <<>>, <<" ", "N", "o">>, <<"y", "o">> }

(***************************************************************************)
(* Messages.  `src` is not a field of the real message: it records which   *)
(* branch of the worker's self.onmessage posted it ("train", "predict") or *)
(* that it is the error event of a worker whose script failed to load.     *)
(* `iter` is info.iterations of the callback that posted the message: the  *)
(* log message prints it, the progress message is posted beside it.        *)
(***************************************************************************)
Msg(type, src) ==
    [type |-> type, src |-> src, pct |-> -1, iter |-> -1,
     label |-> "", cleaned |-> <<>>, message |-> ""]

SamplesMsg == Msg("samples", "train")
LogMsg == Msg("log", "train")
IterLogMsg(it) == [Msg("log", "train") EXCEPT !.iter = it]
ProgressMsg(p, it) == [Msg("progress", "train") EXCEPT !.pct = p, !.iter = it]
DoneMsg == Msg("done", "train")
ErrorMsg(src, why) == [Msg("error", src) EXCEPT !.message = why]
PredictionMsg(l, c) == [Msg("prediction", "predict") EXCEPT !.label = l, !.cleaned = c]
ErrorEvent == [Msg("errorevent", "load") EXCEPT !.message = "Worker error"]

TrainRequest == [type |-> "train", text |-> <<>>]
PredictRequest(t) == [type |-> "predict", text |-> t]

(***************************************************************************)
(* Worker objects.                                                         *)
(***************************************************************************)
NoWorker ==
    [status |-> "none", pc |-> "load", net |-> "null", inbox |-> <<>>,
     sent |-> <<>>, delivered |-> 0, listeners |-> <<>>,
     cbs |-> 0, lastLogIter |-> 0]

\* new Worker(...) followed by worker.postMessage({type: 'train', ...})
NewWorker == [NoWorker EXCEPT !.status = "alive", !.inbox = <<TrainRequest>>]

\* a terminated worker: its thread is stopped, its queued messages are
\* discarded and its listeners are never called again
TerminatedWorker == [NoWorker EXCEPT !.status = "terminated"]

\* a plausible slip: the previous worker is dropped but not terminated
TerminateForgotten(ws, w) == ws

\* lstm.js:49  worker.terminate(); `pc` keeps where the thread was stopped
Terminate(ws, w) == [ws EXCEPT ![w] = [TerminatedWorker EXCEPT !.pc = ws[w].pc]]

Alive(w) == workers[w].status = "alive"

(***************************************************************************)
(* The training callback and the progress percentage.                      *)
(***************************************************************************)
\* a plausible slip: the percentage is not clamped
PctUnclamped(it, total) ==
    MathRound(DoubleMul(DoubleDiv(NumOf(it, 0), NumOf(total, 0)), NumOf(100, 0)))

\* Math.min(100, Math.round((info.iterations / ITERATIONS) * 100))
Pct(it, total) ==
    Min(100, MathRound(DoubleMul(DoubleDiv(NumOf(it, 0), NumOf(total, 0)),
                                 NumOf(100, 0))))

\* iteration counts the predictor may report to the callback: none done,
\* one period done, and one period past the total
IterInputs(total, period) == {0, period, total + period}

\* the percentages of the iteration counts of the model, computed once
LstmPcts ==
    [it \in IterInputs(ITERATIONS_LSTM, LOG_PERIOD_LSTM) |-> Pct(it, ITERATIONS_LSTM)]

NnPcts ==
    [it \in IterInputs(ITERATIONS_NN, LOG_PERIOD_NN) |-> Pct(it, ITERATIONS_NN)]

PctOf(pcts, it, total) == IF it \in DOMAIN pcts THEN pcts[it] ELSE Pct(it, total)

\* lstm.worker.js:139-144, the messages one callback invocation posts
CallbackMsgs(it) ==
    << ProgressMsg(PctOf(LstmPcts, it, ITERATIONS_LSTM), it), IterLogMsg(it) >>

(***************************************************************************)
(* Initial state of lstm.js / index.js (text model).                       *)
(***************************************************************************)
NoPromise == [state |-> "none", text |-> <<>>, label |-> "", cleaned |-> <<>>,
              error |-> ""]

InitLstm ==
    /\ worker = 0
    /\ trained = FALSE
    /\ workers = [w \in WorkerIds |-> NoWorker]
    /\ promises = [p \in PromiseIds |-> NoPromise]
    /\ nextPromise = 1
    /\ trainBtn = "idle"
    /\ card = FALSE
    /\ doneCalls = 0
    /\ errorCalls = 0

(***************************************************************************)
(* Main thread: startLstmTraining (index.js:138-189), the click handler of  *)
(* #lstmTrainBtn, calling trainLstm (lstm.js:47-73).  The handler disables  *)
(* the button (index.js:147) and only onError enables it again              *)
(* (index.js:185), so a click is possible before the first run and after a  *)
(* reported error.                                                          *)
(***************************************************************************)
NextWorkerId ==
    IF \E w \in WorkerIds : workers[w].status = "none"
    THEN CHOOSE w \in WorkerIds :
            /\ workers[w].status = "none"
            /\ \A v \in WorkerIds : v < w => workers[v].status # "none"
    ELSE 0

TrainLstm ==
    /\ trainBtn \in {"idle", "retry"}
    /\ NextWorkerId # 0
    /\ LET new == NextWorkerId
           stopped == IF worker # 0 THEN Terminate(workers, worker) ELSE workers
       IN  /\ workers' = [stopped EXCEPT ![new] = NewWorker]
           /\ worker' = new
    /\ trainBtn' = "training"
    /\ doneCalls' = 0
    /\ errorCalls' = 0
    /\ UNCHANGED <<trained, promises, nextPromise, card>>
    /\ UNCHANGED <<nnVars, dataVars>>

(***************************************************************************)
(* Main thread: trainLstm (lstm.js:47-73) called as the exported function  *)
(* it is, with the callbacks of index.js, in whatever state the module is: *)
(* before any run, while a run is in flight, after a run has ended.  The   *)
(* function does not touch the train button.                               *)
(***************************************************************************)
trainLstm ==
    /\ NextWorkerId # 0
    /\ LET new == NextWorkerId
           stopped == IF worker # 0 THEN Terminate(workers, worker) ELSE workers
       IN  /\ workers' = [stopped EXCEPT ![new] = NewWorker]
           /\ worker' = new
    /\ doneCalls' = 0
    /\ errorCalls' = 0
    /\ UNCHANGED <<trained, promises, nextPromise, trainBtn, card>>
    /\ UNCHANGED <<nnVars, dataVars>>

(***************************************************************************)
(* Main thread: predictFromText (lstm.js:78-96).                           *)
(***************************************************************************)
PredictFromText(t) ==
    /\ nextPromise <= MaxPredicts
    /\ nextPromise' = nextPromise + 1
    /\ IF worker = 0 \/ ~trained
       THEN /\ promises' = [promises EXCEPT ![nextPromise] =
                    [NoPromise EXCEPT !.state = "rejected", !.text = t,
                                      !.error = "LSTM not trained yet"]]
            /\ UNCHANGED workers
       ELSE /\ promises' = [promises EXCEPT ![nextPromise] =
                    [NoPromise EXCEPT !.state = "pending", !.text = t]]
            /\ workers' = [workers EXCEPT
                    ![worker].listeners = Append(@, nextPromise),
                    ![worker].inbox = Append(@, PredictRequest(t))]
    /\ UNCHANGED <<worker, trained, trainBtn, card, doneCalls, errorCalls>>
    /\ UNCHANGED <<nnVars, dataVars>>

(***************************************************************************)
(* Main thread: one message (or error event) of a Worker object is         *)
(* dispatched: first worker.onmessage (lstm.js:53-65) or worker.onerror    *)
(* (lstm.js:67-69), then the 'message' listeners predictFromText added     *)
(* (lstm.js:85-91), in the order they were added.                          *)
(***************************************************************************)
\* the promise handlers: every listener of the dispatching worker settles on
\* a 'prediction' or 'error' message
Settle(ps, ls, m) ==
    [p \in PromiseIds |->
        IF p \in {ls[i] : i \in 1..Len(ls)} /\ ps[p].state = "pending"
        THEN IF m.type = "error"
             THEN [ps[p] EXCEPT !.state = "rejected", !.error = m.message]
             ELSE [ps[p] EXCEPT !.state = "resolved", !.label = m.label,
                                !.cleaned = m.cleaned]
        ELSE ps[p]]

Deliver(w) ==
    /\ Alive(w)
    /\ workers[w].delivered < Len(workers[w].sent)
    /\ LET m == workers[w].sent[workers[w].delivered + 1]
           ls == workers[w].listeners
           settles == m.type \in {"prediction", "error"}
           taken == [workers EXCEPT ![w].delivered = @ + 1]
       IN  /\ trained' = (trained \/ m.type = "done")
           /\ trainBtn' = CASE m.type = "done" -> "trained"
                            [] m.type \in {"error", "errorevent"} -> "retry"
                            [] OTHER -> trainBtn
           /\ card' = (card \/ m.type = "done")
           /\ doneCalls' = IF m.type = "done" THEN Inc2(doneCalls) ELSE doneCalls
           /\ errorCalls' = IF m.type \in {"error", "errorevent"}
                            THEN Inc2(errorCalls) ELSE errorCalls
           /\ promises' = IF settles THEN Settle(promises, ls, m) ELSE promises
           \* handler: worker.removeEventListener('message', handler) on the
           \* worker the module variable names when the handler runs
           /\ workers' = IF settles /\ worker # 0
                         THEN [taken EXCEPT ![worker].listeners =
                                  SeqFilter(@, {@[i] : i \in 1..Len(@)} \
                                               {ls[i] : i \in 1..Len(ls)})]
                         ELSE taken
    /\ UNCHANGED <<worker, nextPromise>>
    /\ UNCHANGED <<nnVars, dataVars>>

(***************************************************************************)
(* Worker thread (lstm.worker.js).                                         *)
(***************************************************************************)
\* importScripts(...) at the top of the script succeeds
WLoad(w) ==
    /\ Alive(w)
    /\ workers[w].pc = "load"
    /\ workers' = [workers EXCEPT ![w].pc = "idle"]
    /\ UNCHANGED <<worker, trained, promises, nextPromise, trainBtn, card,
                   doneCalls, errorCalls>>
    /\ UNCHANGED <<nnVars, dataVars>>

\* importScripts(...) throws: the script never installs self.onmessage and
\* the Worker object gets an error event
WLoadFail(w) ==
    /\ Alive(w)
    /\ workers[w].pc = "load"
    /\ workers' = [workers EXCEPT ![w].pc = "crashed", ![w].inbox = <<>>,
                                  ![w].sent = Append(@, ErrorEvent)]
    /\ UNCHANGED <<worker, trained, promises, nextPromise, trainBtn, card,
                   doneCalls, errorCalls>>
    /\ UNCHANGED <<nnVars, dataVars>>

\* lstm.worker.js:112-125: buildDataset, the samples and [INIT] messages,
\* net = new brain.recurrent.LSTM(), and net.train is entered
TrainBeginMsgs == <<SamplesMsg, LogMsg, LogMsg, LogMsg, LogMsg>>

WTrainBegin(w) ==
    /\ Alive(w)
    /\ workers[w].pc = "idle"
    /\ workers[w].inbox # <<>>
    /\ Head(workers[w].inbox).type = "train"
    /\ workers' = [workers EXCEPT ![w].pc = "training", ![w].net = "fresh",
                                  ![w].cbs = 0, ![w].lastLogIter = 0,
                                  ![w].sent = @ \o TrainBeginMsgs]
    /\ UNCHANGED <<worker, trained, promises, nextPromise, trainBtn, card,
                   doneCalls, errorCalls>>
    /\ UNCHANGED <<nnVars, dataVars>>

\* lstm.worker.js:139-144: the predictor invokes the callback
WCallback(w, it) ==
    /\ Alive(w)
    /\ workers[w].pc = "training"
    /\ workers[w].cbs < MaxCallbacks
    /\ workers[w].cbs > 0 => it > workers[w].lastLogIter
    /\ workers' = [workers EXCEPT ![w].cbs = @ + 1, ![w].lastLogIter = it,
                                  ![w].sent = @ \o CallbackMsgs(it)]
    /\ UNCHANGED <<worker, trained, promises, nextPromise, trainBtn, card,
                   doneCalls, errorCalls>>
    /\ UNCHANGED <<nnVars, dataVars>>

\* a plausible slip: the failure is reported and the run goes on to `done`
TrainEndMsgsNoReturn(outcome) ==
    CASE outcome = "trainThrows" -> <<ErrorMsg("train", "train failed"), DoneMsg>>
      [] outcome = "evalThrows" ->
            <<LogMsg, LogMsg, ErrorMsg("train", "run failed"), LogMsg, DoneMsg>>
      [] OTHER -> <<LogMsg, LogMsg, LogMsg, LogMsg, LogMsg, DoneMsg>>

\* lstm.worker.js:133-170: what the rest of the train branch posts when
\* net.train throws, when a net.run inside evalSet throws, and when neither does
TrainEndMsgs(outcome) ==
    CASE outcome = "trainThrows" -> <<ErrorMsg("train", "train failed")>>
      [] outcome = "evalThrows" -> <<LogMsg, LogMsg, ErrorMsg("train", "run failed")>>
      [] OTHER -> <<LogMsg, LogMsg, LogMsg, LogMsg, LogMsg, DoneMsg>>

TrainOutcomes == {"trainThrows", "evalThrows", "ok"}

\* evalSet (lstm.worker.js:84-104) calls net.run once per record of
\* validation and of test; test holds the records from valEnd on, at least
\* one when there is a record, so a net.run of evalSet can throw exactly
\* when the dataset of the train message has a record
WTrainEnd(w, outcome) ==
    /\ Alive(w)
    /\ workers[w].pc = "training"
    /\ outcome = "evalThrows" => RAW_DATA # <<>>
    /\ workers' = [workers EXCEPT
            ![w].pc = "idle",
            ![w].inbox = Tail(@),
            ![w].net = IF outcome = "trainThrows" THEN "fresh" ELSE "trained",
            ![w].sent = @ \o TrainEndMsgs(outcome)]
    /\ UNCHANGED <<worker, trained, promises, nextPromise, trainBtn, card,
                   doneCalls, errorCalls>>
    /\ UNCHANGED <<nnVars, dataVars>>

\* what a call of net.run does: it throws, or it returns `out`
RunResults == [throws : {TRUE}, out : {<<>>}] \cup [throws : {FALSE}, out : RunOutputs]

\* lstm.worker.js:173-182: the predict branch.  `res` is what net.run
\* does; with net = null the call itself throws a TypeError
PredictMsgs(net, text, res) ==
    IF net = "null" THEN <<ErrorMsg("predict", "net is null")>>
    ELSE IF res.throws THEN <<ErrorMsg("predict", "run failed")>>
    ELSE <<PredictionMsg(IF StartsWithN(res.out) THEN "noshow" ELSE "showup",
                         cleanText(text))>>

WPredict(w, res) ==
    /\ Alive(w)
    /\ workers[w].pc = "idle"
    /\ workers[w].inbox # <<>>
    /\ Head(workers[w].inbox).type = "predict"
    /\ workers' = [workers EXCEPT
            ![w].inbox = Tail(@),
            ![w].sent = @ \o PredictMsgs(workers[w].net,
                                         Head(workers[w].inbox).text, res)]
    /\ UNCHANGED <<worker, trained, promises, nextPromise, trainBtn, card,
                   doneCalls, errorCalls>>
    /\ UNCHANGED <<nnVars, dataVars>>

NextLstm ==
    \/ TrainLstm
    \/ \E t \in TextInputs : PredictFromText(t)
    \/ \E w \in WorkerIds : Deliver(w)
    \/ \E w \in WorkerIds : WLoad(w)
    \/ \E w \in WorkerIds : WLoadFail(w)
    \/ \E w \in WorkerIds : WTrainBegin(w)
    \/ \E w \in WorkerIds :
          \E it \in IterInputs(ITERATIONS_LSTM, LOG_PERIOD_LSTM) : WCallback(w, it)
    \/ \E w \in WorkerIds : \E o \in TrainOutcomes : WTrainEnd(w, o)
    \/ \E w \in WorkerIds : \E res \in RunResults : WPredict(w, res)

(***************************************************************************)
(* Data preparation.  A record is named by its position in RAW_DATA; a     *)
(* sample is named by the record it was built from, so that the same       *)
(* sample object pushed twice is the same value twice.  JavaScript arrays  *)
(* are 0-based: a[i] is written At(a, i).                                  *)
(***************************************************************************)
LabelSeqs(n) == UNION { [1..k -> {0, 1}] : k \in 0..n }

At(a, i) == a[i + 1]

\* [a[i], a[j]] = [a[j], a[i]]
Swap(a, i, j) ==
    [k \in 1..Len(a) |-> IF k = i + 1 THEN At(a, j)
                         ELSE IF k = j + 1 THEN At(a, i) ELSE a[k]]

RECURSIVE Flatten(_)
Flatten(ss) == IF ss = <<>> THEN <<>> ELSE Head(ss) \o Flatten(Tail(ss))

Count(a, x) == Cardinality({k \in 1..Len(a) : a[k] = x})

Elems(a) == {a[k] : k \in 1..Len(a)}

\* a plausible slip: the loop starts at 0 and pushes one copy too many
EntriesOffByOne(data, r) ==
    [k \in 1..(IF data[r] = 1 THEN OVERSAMPLE_FACTOR + 1 ELSE 1) |-> r]

\* functions.js:106-119: the entry of record r is pushed once, and
\* OVERSAMPLE_FACTOR - 1 times more when r.noshow === 1
Entries(data, r) ==
    [k \in 1..(IF data[r] = 1 THEN OVERSAMPLE_FACTOR ELSE 1) |-> r]

\* functions.js:123-126: what the shuffle loop, about to run iteration i,
\* may leave of the array a, j being drawn by Math.random at each iteration
RECURSIVE Shuffled(_, _)
Shuffled(a, i) ==
    IF i <= 0 THEN {a}
    ELSE UNION { Shuffled(Swap(a, i, j), i - 1) : j \in 0..i }

\* functions.js:101-130, prepareTrainingData run from its first statement to
\* its return: the values it may return
PreparedSamples(data) ==
    LET built == Flatten([r \in 1..Len(data) |-> Entries(data, r)])
    IN  Shuffled(built, Len(built) - 1)

(***************************************************************************)
(* Numeric model: startTraining (index.js:71-116) calling trainModel       *)
(* (functions.js:135-169), and the predict form (index.js:121-129).        *)
(***************************************************************************)
InitNum ==
    /\ nnBtn = "idle"
    /\ nnTimers = 0
    /\ nnCalls = 0
    /\ nnNet = "fresh"
    /\ nnProgress = <<>>
    /\ nnDone = 0
    /\ nnError = 0
    /\ nnCard = FALSE
    /\ nnVerdict = "none"
    /\ nnUncaught = FALSE

\* the click handler of #trainBtn; a disabled button gets no click.
\* trainModel runs prepareTrainingData (functions.js:136), which leaves its
\* result in myBrain.trainingData, logs and defers the training by setTimeout
StartTraining ==
    /\ nnCalls < MaxRuns
    /\ nnBtn \in {"idle", "retry"}
    /\ nnBtn' = "training"
    /\ nnCalls' = nnCalls + 1
    /\ nnTimers' = nnTimers + 1
    /\ nnProgress' = <<>>
    /\ nnDone' = 0
    /\ nnError' = 0
    /\ \E prepared \in PreparedSamples(RAW_DATA) :
          /\ samples' = prepared
          /\ trainingData' = prepared
    /\ prepPc' = "done"
    /\ loopI' = Min(0, Len(samples') - 1)
    /\ UNCHANGED <<nnNet, nnCard, nnVerdict, nnUncaught>>
    /\ UNCHANGED <<RAW_DATA, splitVars, pureVars>>
    /\ UNCHANGED lstmVars

\* the increasing sequences of at most n iteration counts out of S
IncreasingSeqs(S, n) ==
    { s \in UNION { [1..k -> S] : k \in 0..n } :
        \A i \in 1..Len(s) : \A j \in 1..Len(s) : i < j => s[i] < s[j] }

\* functions.js:154-158: what onProgress receives for the callbacks `its`
ProgressCalls(its) ==
    [i \in 1..Len(its) |->
        [pct |-> PctOf(NnPcts, its[i], ITERATIONS_NN), iter |-> its[i]]]

\* functions.js:146-168: the deferred body of trainModel, one task of the
\* main thread.  net.train invokes the callback for `its` and then throws
\* ("trainThrows") or returns; onDone (index.js:94-109) runs evaluateAccuracy,
\* whose net.run throws ("evalThrows") or not ("ok"); what is thrown inside
\* the try block reaches catch and onError (index.js:110-114).
\* evaluateAccuracy calls net.run once per record of RAW_DATA, so it can
\* only throw when there is a record
TrainTimer(its, outcome) ==
    /\ nnTimers > 0
    /\ outcome = "evalThrows" => RAW_DATA # <<>>
    /\ nnTimers' = nnTimers - 1
    /\ nnProgress' = ProgressCalls(its)
    /\ nnNet' = IF outcome = "trainThrows" THEN "failed" ELSE "trained"
    /\ nnDone' = IF outcome = "trainThrows" THEN nnDone ELSE Inc2(nnDone)
    /\ nnError' = IF outcome = "ok" THEN nnError ELSE Inc2(nnError)
    /\ nnBtn' = IF outcome = "ok" THEN "trained" ELSE "retry"
    /\ nnCard' = (nnCard \/ outcome = "ok")
    /\ UNCHANGED <<nnCalls, nnVerdict, nnUncaught>>
    /\ UNCHANGED <<lstmVars, dataVars>>

\* risk scores (in percent) myBrain.net.run may return to predict()
RiskOutputs == {30, 50, 70}

NumRunResults == [throws : {TRUE}, risk : {0}] \cup [throws : {FALSE}, risk : RiskOutputs]

\* index.js:122-128: the submit handler of #predictForm; predict()
\* (functions.js:212-228) calls myBrain.net.run outside any try block;
\* updateGauge (functions.js:302-325) shows the verdict
SubmitPredict(res) ==
    /\ nnCard
    /\ IF res.throws
       THEN /\ nnUncaught' = TRUE
            /\ UNCHANGED nnVerdict
       ELSE /\ nnVerdict' = IF res.risk > 50 THEN "no-show" ELSE "will-show"
            /\ UNCHANGED nnUncaught
    /\ UNCHANGED <<nnBtn, nnTimers, nnCalls, nnNet, nnProgress, nnDone, nnError,
                   nnCard>>
    /\ UNCHANGED <<lstmVars, dataVars>>

NextNum ==
    \/ StartTraining
    \/ \E its \in IncreasingSeqs(IterInputs(ITERATIONS_NN, LOG_PERIOD_NN), MaxCallbacks) :
          \E o \in TrainOutcomes : TrainTimer(its, o)
    \/ \E res \in NumRunResults : SubmitPredict(res)

\* RAW_DATA of config.js (index.js:15, lstm.js:18): the dataset of the page,
\* here one no-show record and one show record
Dataset == <<1, 0>>

InitData ==
    /\ RAW_DATA = Dataset
    /\ samples = <<>>
    /\ trainingData = <<>>
    /\ prepPc = "start"
    /\ all = <<>>
    /\ rawTrain = <<>>
    /\ train = <<>>
    /\ validation = <<>>
    /\ test = <<>>
    /\ splitPc = "start"
    /\ loopI = 0
    /\ evalKind = "text"
    /\ evalI = 0
    /\ tally = [correct |-> 0, tpShow |-> 0, fnShow |-> 0, tpNoshow |-> 0, fnNoshow |-> 0]
    /\ predicted = <<>>
    /\ evalPc = "loop"
    /\ evalResult = [overall |-> <<>>, showRecall |-> <<>>, noshowRecall |-> <<>>]
    /\ cleanStr = <<>>
    /\ cleaned = <<>>
    /\ normValue = [neg |-> FALSE, m |-> <<>>, e |-> 0]
    /\ normMin = [neg |-> FALSE, m |-> <<>>, e |-> 0]
    /\ normMax = [neg |-> FALSE, m |-> <<>>, e |-> 0]
    /\ normalized = [neg |-> FALSE, m |-> <<>>, e |-> 0]
    /\ denormalized = [neg |-> FALSE, m |-> <<>>, e |-> 0]
    /\ normPc = "start"
    /\ count = 0
    /\ trainEnd = -1
    /\ valEnd = -1

(***************************************************************************)
(* prepareTrainingData (functions.js:101-130).                             *)
(***************************************************************************)
\* functions.js:103-120 and the head of the loop at 123
PrepareBuild ==
    /\ prepPc = "start"
    /\ samples' = Flatten([r \in 1..Len(RAW_DATA) |-> Entries(RAW_DATA, r)])
    /\ loopI' = Len(samples') - 1
    /\ prepPc' = "shuffle"
    /\ UNCHANGED <<RAW_DATA, trainingData, splitVars>>
    /\ UNCHANGED <<lstmVars, nnVars, pureVars>>

\* functions.js:123-126: one iteration of the shuffle, j drawn by Math.random
PrepareShuffle(j) ==
    /\ prepPc = "shuffle"
    /\ loopI > 0
    /\ j \in 0..loopI
    /\ samples' = Swap(samples, loopI, j)
    /\ loopI' = loopI - 1
    /\ UNCHANGED <<RAW_DATA, trainingData, prepPc, splitVars>>
    /\ UNCHANGED <<lstmVars, nnVars, pureVars>>

\* functions.js:128-129
PrepareReturn ==
    /\ prepPc = "shuffle"
    /\ loopI <= 0
    /\ trainingData' = samples
    /\ prepPc' = "done"
    /\ UNCHANGED <<RAW_DATA, samples, loopI, splitVars>>
    /\ UNCHANGED <<lstmVars, nnVars, pureVars>>

NextPrepare ==
    \/ PrepareBuild
    \/ \E j \in 0..(OVERSAMPLE_FACTOR * MaxRecords) : PrepareShuffle(j)
    \/ PrepareReturn

(***************************************************************************)
(* buildDataset (lstm.worker.js:46-79).                                    *)
(***************************************************************************)
\* the literals 0.70 and 0.85
TrainShare == Decimal(70, 100)
ValShare == Decimal(85, 100)

\* Math.floor(n * 0.70) and Math.floor(n * 0.85), the products being doubles
TrainEnd(n) == MathFloor(DoubleMul(NumOf(n, 0), TrainShare))
ValEnd(n) == MathFloor(DoubleMul(NumOf(n, 0), ValShare))

\* Array.prototype.slice(from, to) with 0 <= from, to <= length
Slice(a, from, to) == IF to <= from THEN <<>> ELSE SubSeq(a, from + 1, to)

\* lstm.worker.js:59-64
Split(a) ==
    [rawTrain   |-> Slice(a, 0, TrainEnd(Len(a))),
     validation |-> Slice(a, TrainEnd(Len(a)), ValEnd(Len(a))),
     test       |-> Slice(a, ValEnd(Len(a)), Len(a))]

\* a plausible slip: the majority class is the one duplicated
OversampleShows(data, slice) ==
    slice \o Flatten([k \in 1..Len(slice) |->
                IF data[slice[k]] = 0 THEN <<slice[k], slice[k]>> ELSE <<>>])

\* lstm.worker.js:67-70
Oversample(data, slice) ==
    slice \o Flatten([k \in 1..Len(slice) |->
                IF data[slice[k]] = 1 THEN <<slice[k], slice[k]>> ELSE <<>>])

\* lstm.worker.js:47-51 and the head of the loop at 54
BuildMap ==
    /\ splitPc = "start"
    /\ all' = [r \in 1..Len(RAW_DATA) |-> r]
    /\ loopI' = Len(RAW_DATA) - 1
    /\ splitPc' = "shuffleAll"
    /\ UNCHANGED <<RAW_DATA, rawTrain, train, validation, test, prepVars>>
    /\ UNCHANGED <<lstmVars, nnVars, pureVars>>

\* lstm.worker.js:54-57: one iteration of the first shuffle
BuildShuffleAll(j) ==
    /\ splitPc = "shuffleAll"
    /\ loopI > 0
    /\ j \in 0..loopI
    /\ all' = Swap(all, loopI, j)
    /\ loopI' = loopI - 1
    /\ UNCHANGED <<RAW_DATA, rawTrain, train, validation, test, splitPc, prepVars>>
    /\ UNCHANGED <<lstmVars, nnVars, pureVars>>

\* lstm.worker.js:59-70 and the head of the loop at 73
BuildSplit ==
    /\ splitPc = "shuffleAll"
    /\ loopI <= 0
    /\ rawTrain' = Split(all).rawTrain
    /\ validation' = Split(all).validation
    /\ test' = Split(all).test
    /\ train' = Oversample(RAW_DATA, rawTrain')
    /\ loopI' = Len(train') - 1
    /\ splitPc' = "shuffleTrain"
    /\ UNCHANGED <<RAW_DATA, all, prepVars>>
    /\ UNCHANGED <<lstmVars, nnVars, pureVars>>

\* lstm.worker.js:73-76: one iteration of the second shuffle
BuildShuffleTrain(j) ==
    /\ splitPc = "shuffleTrain"
    /\ loopI > 0
    /\ j \in 0..loopI
    /\ train' = Swap(train, loopI, j)
    /\ loopI' = loopI - 1
    /\ UNCHANGED <<RAW_DATA, all, rawTrain, validation, test, splitPc, prepVars>>
    /\ UNCHANGED <<lstmVars, nnVars, pureVars>>

\* lstm.worker.js:78
BuildReturn ==
    /\ splitPc = "shuffleTrain"
    /\ loopI <= 0
    /\ splitPc' = "done"
    /\ UNCHANGED <<RAW_DATA, all, rawTrain, train, validation, test, loopI, prepVars>>
    /\ UNCHANGED <<lstmVars, nnVars, pureVars>>

NextSplit ==
    \/ BuildMap
    \/ \E j \in 0..(3 * MaxSplitRecords) : BuildShuffleAll(j)
    \/ BuildSplit
    \/ \E j \in 0..(3 * MaxSplitRecords) : BuildShuffleTrain(j)
    \/ BuildReturn

(***************************************************************************)
(* The evaluators: evalSet (lstm.worker.js:84-104) on a validation or test *)
(* split and evaluateAccuracy (functions.js:174-207) on RAW_DATA.  The     *)
(* records evaluated are those of RAW_DATA; the sample of a record has     *)
(* output 'no' when its noshow is 1 and 'yes' otherwise                    *)
(* (lstm.worker.js:49).  A class is written 1 (no-show) or 0 (show).       *)
(***************************************************************************)
\* functions.js:175  const THRESHOLD = 0.5, in percent as RiskOutputs is
THRESHOLD == 50

NoTally == [correct |-> 0, tpShow |-> 0, fnShow |-> 0, tpNoshow |-> 0, fnNoshow |-> 0]

\* a plausible slip: the two counters of a show record are exchanged
TallySwapped(c, predClass, actual) ==
    IF predClass = actual
    THEN IF actual = 0
         THEN [c EXCEPT !.correct = @ + 1, !.fnShow = @ + 1]
         ELSE [c EXCEPT !.correct = @ + 1, !.tpNoshow = @ + 1]
    ELSE IF actual = 0
         THEN [c EXCEPT !.tpShow = @ + 1]
         ELSE [c EXCEPT !.fnNoshow = @ + 1]

\* functions.js:190-197 and lstm.worker.js:90-97: the counters after one record
Tally(c, predClass, actual) ==
    IF predClass = actual
    THEN IF actual = 0
         THEN [c EXCEPT !.correct = @ + 1, !.tpShow = @ + 1]
         ELSE [c EXCEPT !.correct = @ + 1, !.tpNoshow = @ + 1]
    ELSE IF actual = 0
         THEN [c EXCEPT !.fnShow = @ + 1]
         ELSE [c EXCEPT !.fnNoshow = @ + 1]

DecimalDigits == <<"0", "1", "2", "3", "4", "5", "6", "7", "8", "9">>

\* the decimal digits of a natural number
RECURSIVE DecString(_)
DecString(n) ==
    IF n < 10 THEN <<DecimalDigits[n + 1]>>
    ELSE DecString(n \div 10) \o <<DecimalDigits[(n % 10) + 1]>>

\* ((num / den) * 100).toFixed(1) for num >= 0, den >= 0: the quotient and
\* the product are doubles, and toFixed prints the number of tenths nearest
\* to the product, the larger one of two equally near; 0/0 is NaN and x/0
\* is Infinity, which toFixed prints by name
ToFixed1(num, den) ==
    IF den = 0
    THEN IF num = 0 THEN <<"N", "a", "N">>
         ELSE <<"I", "n", "f", "i", "n", "i", "t", "y">>
    ELSE LET x == DoubleMul(DoubleDiv(NumOf(num, 0), NumOf(den, 0)), NumOf(100, 0))
             tenths == MathFloor(ExactAdd(ExactMul(x, NumOf(10, 0)), NumOf(1, -1)))
         IN  DecString(tenths \div 10) \o <<".">> \o DecString(tenths % 10)

ZeroString == <<"0", ".", "0">>

\* lstm.worker.js:99-103: the object evalSet returns (`overall` is its acc)
EvalSetResult(c, n) ==
    [overall      |-> IF n > 0 THEN ToFixed1(c.correct, n) ELSE ZeroString,
     showRecall   |-> IF c.tpShow + c.fnShow > 0
                      THEN ToFixed1(c.tpShow, c.tpShow + c.fnShow) ELSE ZeroString,
     noshowRecall |-> IF c.tpNoshow + c.fnNoshow > 0
                      THEN ToFixed1(c.tpNoshow, c.tpNoshow + c.fnNoshow) ELSE ZeroString]

\* functions.js:200-206: the object evaluateAccuracy returns (`showRecall`
\* is its showUpRecall)
EvaluateAccuracyResult(c, n) ==
    [overall      |-> ToFixed1(c.correct, n),
     showRecall   |-> IF c.tpShow + c.fnShow > 0
                      THEN ToFixed1(c.tpShow, c.tpShow + c.fnShow) ELSE ZeroString,
     noshowRecall |-> IF c.tpNoshow + c.fnNoshow > 0
                      THEN ToFixed1(c.tpNoshow, c.tpNoshow + c.fnNoshow) ELSE ZeroString]

NoResult == [overall |-> <<>>, showRecall |-> <<>>, noshowRecall |-> <<>>]

InitEval ==
    /\ evalKind = "text"
    /\ evalI = 0
    /\ tally = NoTally
    /\ predicted = <<>>
    /\ evalPc = "loop"
    /\ evalResult = NoResult

\* lstm.worker.js:86-98: the forEach callback of evalSet on the next sample
EvalSetRecord(res) ==
    /\ evalKind = "text"
    /\ evalPc = "loop"
    /\ evalI < Len(RAW_DATA)
    /\ IF res.throws
       THEN /\ evalPc' = "threw"
            /\ UNCHANGED <<evalI, tally, predicted>>
       ELSE /\ tally' = Tally(tally, IF StartsWithN(res.out) THEN 1 ELSE 0,
                              RAW_DATA[evalI + 1])
            /\ predicted' = Append(predicted, IF StartsWithN(res.out) THEN 1 ELSE 0)
            /\ evalI' = evalI + 1
            /\ UNCHANGED evalPc
    /\ UNCHANGED <<evalKind, evalResult>>
    /\ UNCHANGED <<RAW_DATA, prepVars, splitVars, loopI, cleanVars, normVars,
                   sizeVars>>
    /\ UNCHANGED <<lstmVars, nnVars>>

\* lstm.worker.js:99-103
EvalSetReturn ==
    /\ evalKind = "text"
    /\ evalPc = "loop"
    /\ evalI = Len(RAW_DATA)
    /\ evalResult' = EvalSetResult(tally, Len(RAW_DATA))
    /\ evalPc' = "done"
    /\ UNCHANGED <<evalKind, evalI, tally, predicted>>
    /\ UNCHANGED <<RAW_DATA, prepVars, splitVars, loopI, cleanVars, normVars,
                   sizeVars>>
    /\ UNCHANGED <<lstmVars, nnVars>>

\* functions.js:178-198: the forEach callback of evaluateAccuracy on the
\* next record; res.risk is predVal in percent
EvaluateAccuracyRecord(res) ==
    /\ evalKind = "numeric"
    /\ evalPc = "loop"
    /\ evalI < Len(RAW_DATA)
    /\ IF res.throws
       THEN /\ evalPc' = "threw"
            /\ UNCHANGED <<evalI, tally, predicted>>
       ELSE /\ tally' = Tally(tally, IF res.risk > THRESHOLD THEN 1 ELSE 0,
                              RAW_DATA[evalI + 1])
            /\ predicted' = Append(predicted, IF res.risk > THRESHOLD THEN 1 ELSE 0)
            /\ evalI' = evalI + 1
            /\ UNCHANGED evalPc
    /\ UNCHANGED <<evalKind, evalResult>>
    /\ UNCHANGED <<RAW_DATA, prepVars, splitVars, loopI, cleanVars, normVars,
                   sizeVars>>
    /\ UNCHANGED <<lstmVars, nnVars>>

\* functions.js:200-206
EvaluateAccuracyReturn ==
    /\ evalKind = "numeric"
    /\ evalPc = "loop"
    /\ evalI = Len(RAW_DATA)
    /\ evalResult' = EvaluateAccuracyResult(tally, Len(RAW_DATA))
    /\ evalPc' = "done"
    /\ UNCHANGED <<evalKind, evalI, tally, predicted>>
    /\ UNCHANGED <<RAW_DATA, prepVars, splitVars, loopI, cleanVars, normVars,
                   sizeVars>>
    /\ UNCHANGED <<lstmVars, nnVars>>

NextEval ==
    \/ \E res \in RunResults : EvalSetRecord(res)
    \/ EvalSetReturn
    \/ \E res \in NumRunResults : EvaluateAccuracyRecord(res)
    \/ EvaluateAccuracyReturn

(***************************************************************************)
(* cleanText applied to a string and then to its own result.               *)
(***************************************************************************)
InitClean ==
    /\ cleanStr = <<>>
    /\ cleaned = <<>>

\* cleanText(s), then cleanText(cleanText(s))
ApplyCleanText ==
    /\ Len(cleaned) < 2
    /\ cleaned' = Append(cleaned, cleanText(IF cleaned = <<>> THEN cleanStr
                                            ELSE cleaned[Len(cleaned)]))
    /\ UNCHANGED cleanStr
    /\ UNCHANGED <<RAW_DATA, prepVars, splitVars, loopI, evalVars, normVars,
                   sizeVars>>
    /\ UNCHANGED <<lstmVars, nnVars>>

NextClean == ApplyCleanText

(***************************************************************************)
(* normalizeData and denormalizeData (functions.js:69-76), on doubles.     *)
(***************************************************************************)
\* a plausible slip: the offset added back is max
denormalizeDataFromMax(value, min, max) ==
    DoubleAdd(DoubleMul(value, DoubleSub(max, min)), max)

\* functions.js:69-72
normalizeData(value, min, max) ==
    IF min = max THEN NumOf(1, -1)
    ELSE DoubleDiv(DoubleSub(value, min), DoubleSub(max, min))

\* functions.js:74-76
denormalizeData(value, min, max) ==
    DoubleAdd(DoubleMul(value, DoubleSub(max, min)), min)

InitNorm ==
    /\ normValue = Zero
    /\ normMin = Zero
    /\ normMax = Zero
    /\ normalized = Zero
    /\ denormalized = Zero
    /\ normPc = "start"

\* normalized = normalizeData(v, min, max)
NormalizeData ==
    /\ normPc = "start"
    /\ normalized' = normalizeData(normValue, normMin, normMax)
    /\ normPc' = "normalized"
    /\ UNCHANGED <<normValue, normMin, normMax, denormalized>>
    /\ UNCHANGED <<RAW_DATA, prepVars, splitVars, loopI, evalVars, cleanVars,
                   sizeVars>>
    /\ UNCHANGED <<lstmVars, nnVars>>

\* denormalized = denormalizeData(normalized, min, max)
DenormalizeData ==
    /\ normPc = "normalized"
    /\ denormalized' = denormalizeData(normalized, normMin, normMax)
    /\ normPc' = "done"
    /\ UNCHANGED <<normValue, normMin, normMax, normalized>>
    /\ UNCHANGED <<RAW_DATA, prepVars, splitVars, loopI, evalVars, cleanVars,
                   sizeVars>>
    /\ UNCHANGED <<lstmVars, nnVars>>

NextNorm ==
    \/ NormalizeData
    \/ DenormalizeData

(***************************************************************************)
(* The cut indices of buildDataset (lstm.worker.js:59-60) for a record     *)
(* count, run on their own.                                                *)
(***************************************************************************)
InitSizes ==
    /\ count = 0
    /\ trainEnd = -1
    /\ valEnd = -1

\* lstm.worker.js:59-60
CutIndices ==
    /\ trainEnd = -1
    /\ trainEnd' = TrainEnd(count)
    /\ valEnd' = ValEnd(count)
    /\ UNCHANGED count
    /\ UNCHANGED <<RAW_DATA, prepVars, splitVars, loopI, evalVars, cleanVars,
                   normVars>>
    /\ UNCHANGED <<lstmVars, nnVars>>

NextSizes == CutIndices

InitPure == InitEval /\ InitClean /\ InitNorm /\ InitSizes

(***************************************************************************)
(* Specifications.                                                         *)
(***************************************************************************)
Init == InitLstm /\ InitNum /\ InitData

\* the text model: lstm.js, lstm.worker.js and their callers in index.js
Next == NextLstm

Spec == Init /\ [][Next]_vars

\* the numeric model: functions.js and its callers in index.js
SpecNum == Init /\ [][NextNum]_vars

\* prepareTrainingData on every record list of at most MaxRecords records
InitPrepare ==
    /\ InitLstm /\ InitNum
    /\ RAW_DATA \in LabelSeqs(MaxRecords)
    /\ samples = <<>> /\ trainingData = <<>> /\ prepPc = "start"
    /\ all = <<>> /\ rawTrain = <<>> /\ train = <<>> /\ validation = <<>>
    /\ test = <<>> /\ splitPc = "start" /\ loopI = 0
    /\ InitPure

SpecPrepare == InitPrepare /\ [][NextPrepare]_vars

\* buildDataset on the record lists of at most MaxSplitRecords records that
\* list their no-shows first: the first shuffle of buildDataset then puts
\* every record, and so every label, at every place
NoShowsFirst(n) ==
    { [i \in 1..k |-> IF i <= p THEN 1 ELSE 0] : k \in 0..n, p \in 0..n } \cap LabelSeqs(n)

InitSplit ==
    /\ InitLstm /\ InitNum
    /\ RAW_DATA \in NoShowsFirst(MaxSplitRecords)
    /\ samples = <<>> /\ trainingData = <<>> /\ prepPc = "start"
    /\ all = <<>> /\ rawTrain = <<>> /\ train = <<>> /\ validation = <<>>
    /\ test = <<>> /\ splitPc = "start" /\ loopI = 0
    /\ InitPure

SpecSplit == InitSplit /\ [][NextSplit]_vars

\* the parts of InitData the data preparation owns
InitNoData ==
    /\ samples = <<>> /\ trainingData = <<>> /\ prepPc = "start"
    /\ all = <<>> /\ rawTrain = <<>> /\ train = <<>> /\ validation = <<>>
    /\ test = <<>> /\ splitPc = "start" /\ loopI = 0

\* each evaluator on every record list of at most MaxEvalRecords records
InitEvalRun ==
    /\ InitLstm /\ InitNum /\ InitNoData /\ InitClean /\ InitNorm /\ InitSizes
    /\ RAW_DATA \in LabelSeqs(MaxEvalRecords)
    /\ evalKind \in {"text", "numeric"}
    /\ evalI = 0 /\ tally = NoTally /\ predicted = <<>>
    /\ evalPc = "loop" /\ evalResult = NoResult

SpecEval == InitEvalRun /\ [][NextEval]_vars

\* the characters of the strings cleanText is given: one of each class of
\* Chars, and both kinds of whitespace
CleanChars == {"A", "b", "1", " ", "\t", "!"}

\* the strings of at most n of these characters
Strings(n) == UNION { [1..k -> CleanChars] : k \in 0..n }

\* cleanText on every string of at most MaxTextLen characters
InitCleanRun ==
    /\ InitLstm /\ InitNum /\ InitNoData /\ InitEval /\ InitNorm /\ InitSizes
    /\ RAW_DATA = <<>>
    /\ cleanStr \in Strings(MaxTextLen)
    /\ cleaned = <<>>

SpecClean == InitCleanRun /\ [][NextClean]_vars

\* the values normalizeData is given: every half and every tenth, as the
\* double its decimal literal denotes, between -1 and MaxValue + 1
NormValues ==
    { NumOf(k, -1) : k \in (-2)..(2 * MaxValue + 2) }
        \cup { Decimal(k, 10) : k \in 0..(10 * MaxValue + 10) }
        \cup { Negate(Decimal(k, 10)) : k \in 1..10 }

\* the bounds: the whole numbers 0..MaxValue
NormBounds == { NumOf(k, 0) : k \in 0..MaxValue }

\* normalizeData, then denormalizeData, on every value and bounds min <= max
InitNormRun ==
    /\ InitLstm /\ InitNum /\ InitNoData /\ InitEval /\ InitClean /\ InitSizes
    /\ RAW_DATA = <<>>
    /\ normValue \in NormValues
    /\ normMin \in NormBounds
    /\ normMax \in NormBounds
    /\ ~NumLess(normMax, normMin)
    /\ normalized = Zero /\ denormalized = Zero /\ normPc = "start"

SpecNorm == InitNormRun /\ [][NextNorm]_vars

\* the cut indices for every record count up to MaxCount
InitSizesRun ==
    /\ InitLstm /\ InitNum /\ InitNoData /\ InitEval /\ InitClean /\ InitNorm
    /\ RAW_DATA = <<>>
    /\ count \in 0..MaxCount
    /\ trainEnd = -1
    /\ valEnd = -1

SpecSizes == InitSizesRun /\ [][NextSizes]_vars

\* the text model with the scheduling of the page: the worker thread runs
\* while it has a message to handle and the event loop of the main thread
\* dispatches every message a live worker posted; nothing obliges the user
\* to train or to predict
Fairness ==
    /\ \A w \in WorkerIds : WF_vars(Deliver(w))
    /\ \A w \in WorkerIds : WF_vars(WLoad(w) \/ WLoadFail(w))
    /\ \A w \in WorkerIds : WF_vars(WTrainBegin(w))
    /\ \A w \in WorkerIds : WF_vars(\E o \in TrainOutcomes : WTrainEnd(w, o))
    /\ \A w \in WorkerIds : WF_vars(\E res \in RunResults : WPredict(w, res))

SpecLive == Init /\ [][Next]_vars /\ Fairness

\* the text model with trainLstm and predictFromText called as functions of
\* lstm.js, by any caller at any time; which run a message belongs to does
\* not depend on the text of a request, so one text is asked for
ApiTexts == { <<"A", "b">> }

NextApi ==
    \/ trainLstm
    \/ \E t \in ApiTexts : PredictFromText(t)
    \/ \E w \in WorkerIds : Deliver(w)
    \/ \E w \in WorkerIds : WLoad(w)
    \/ \E w \in WorkerIds : WLoadFail(w)
    \/ \E w \in WorkerIds : WTrainBegin(w)
    \/ \E w \in WorkerIds :
          \E it \in IterInputs(ITERATIONS_LSTM, LOG_PERIOD_LSTM) : WCallback(w, it)
    \/ \E w \in WorkerIds : \E o \in TrainOutcomes : WTrainEnd(w, o)
    \/ \E w \in WorkerIds : \E res \in RunResults : WPredict(w, res)

SpecApi == Init /\ [][NextApi]_vars

(***************************************************************************)
(* Properties.                                                             *)
(***************************************************************************)
HasType(q, type) == \E i \in 1..Len(q) : q[i].type = type

\* the Worker object w has dispatched a `done` message on the main thread
DoneDelivered(w) ==
    \E i \in 1..workers[w].delivered : workers[w].sent[i].type = "done"

\* the worker thread of w has finished handling the train message it was sent
TrainHandled(w) ==
    /\ Alive(w)
    /\ workers[w].pc = "idle"
    /\ ~HasType(workers[w].inbox, "train")

\* C1: trainLstm terminates the previous worker before it creates the new
\* one: the only worker alive is the one `worker` names, and a message is
\* dispatched to the caller only from that worker, never from an earlier run.
C1_OneActiveRun ==
    /\ [](\A w \in WorkerIds : Alive(w) => w = worker)
    /\ [][\A w \in WorkerIds :
            workers'[w].delivered > workers[w].delivered
                => (w = worker /\ w = worker')]_vars

\* a first run terminated in the middle of net.train, after it posted its
\* samples and log messages, and the second run delivering
C1_Witness ==
    /\ worker = 2
    /\ workers[1].status = "terminated"
    /\ workers[1].pc = "training"
    /\ workers[2].delivered > 0

\* C2: a predict request is only ever posted to a worker that has already
\* delivered `done` for its own training run.
C2_PredictOnlyAfterDone ==
    \A w \in WorkerIds : HasType(workers[w].inbox, "predict") => DoneDelivered(w)

\* C3: while no run has delivered `done`, every predictFromText promise is
\* rejected with 'LSTM not trained yet' and no predict request is posted; and
\* a worker posts a `prediction` only after the `done` of its own training.
C3_NotTrainedFailsFast ==
    /\ ~trained =>
          /\ \A p \in PromiseIds :
                promises[p].state # "none" =>
                    /\ promises[p].state = "rejected"
                    /\ promises[p].error = "LSTM not trained yet"
          /\ \A w \in WorkerIds : ~HasType(workers[w].inbox, "predict")
    /\ \A w \in WorkerIds : \A i \in 1..Len(workers[w].sent) :
          workers[w].sent[i].type = "prediction" =>
              \E j \in 1..(i - 1) : workers[w].sent[j].type = "done"

\* the terminal messages the train branch of worker w has posted
TrainTerminals(w) ==
    { i \in 1..Len(workers[w].sent) :
        /\ workers[w].sent[i].src = "train"
        /\ workers[w].sent[i].type \in {"done", "error"} }

\* C4: the train branch posts at most one terminal message (done or error),
\* exactly one once the train message is handled, and nothing after it.
C4_OneTerminalLast ==
    \A w \in WorkerIds :
        /\ Cardinality(TrainTerminals(w)) <= 1
        /\ TrainHandled(w) => Cardinality(TrainTerminals(w)) = 1
        /\ \A i \in TrainTerminals(w) : \A j \in 1..Len(workers[w].sent) :
              j > i => workers[w].sent[j].src # "train"

\* a handled train message whose run reported progress and ended in `done`,
\* followed by the answer to a predict request
C4_Witness ==
    \E w \in WorkerIds :
        /\ TrainHandled(w)
        /\ HasType(workers[w].sent, "progress")
        /\ HasType(workers[w].sent, "done")
        /\ HasType(workers[w].sent, "prediction")

\* C5: between two trainLstm calls onDone and onError are never both
\* invoked, and after onDone the train button is not switched to 'Retry'.
C5_DoneIsTerminal ==
    /\ ~(doneCalls > 0 /\ errorCalls > 0)
    /\ doneCalls > 0 => trainBtn # "retry"

\* C6: no exception of the predictor leaves an event handler uncaught.
C6_NoUncaughtFault == ~nnUncaught

\* the calls or messages ps report percentages within 0..100 that never
\* decrease, in increasing iteration order
ProgressOk(ps) ==
    /\ \A i \in 1..Len(ps) : ps[i].pct \in 0..100
    /\ \A i \in 1..Len(ps) : \A j \in 1..Len(ps) :
          i < j => (ps[i].pct <= ps[j].pct /\ ps[i].iter < ps[j].iter)

IsProgress(m) == m.type = "progress"

\* iteration counts on a grid fine enough to have percentages that are
\* halves before rounding: every 3rd of the text model up to 330 and every
\* 25th of the numeric model up to 5250
GridLstm == { 3 * k : k \in 0..((ITERATIONS_LSTM + LOG_PERIOD_LSTM) \div 3) }
GridNn == { 25 * k : k \in 0..((ITERATIONS_NN + LOG_PERIOD_NN) \div 25) }

\* the percentage is within 0..100 and does not decrease with the iteration
\* count, on both grids
PctMonotone ==
    /\ \A i \in GridLstm : Pct(i, ITERATIONS_LSTM) \in 0..100
    /\ \A i \in GridLstm \ {0} :
          Pct(i - 3, ITERATIONS_LSTM) <= Pct(i, ITERATIONS_LSTM)
    /\ \A i \in GridNn : Pct(i, ITERATIONS_NN) \in 0..100
    /\ \A i \in GridNn \ {0} :
          Pct(i - 25, ITERATIONS_NN) <= Pct(i, ITERATIONS_NN)

\* what trainModel passes to onProgress, for every increasing sequence of at
\* most MaxCallbacks iteration counts
NumericProgressOk ==
    \A its \in IncreasingSeqs(IterInputs(ITERATIONS_NN, LOG_PERIOD_NN), MaxCallbacks) :
        ProgressOk(ProgressCalls(its))

\* C7: within one run the progress percentages the worker posts lie in
\* 0..100, never decrease and come in increasing iteration order; so do
\* those trainModel passes to onProgress for every increasing sequence of
\* iteration counts; and the percentage never decreases with the count.
C7_ProgressMonotone ==
    /\ \A w \in WorkerIds : ProgressOk(SelectSeq(workers[w].sent, IsProgress))
    /\ NumericProgressOk
    /\ PctMonotone

\* two progress messages of one run, the second past ITERATIONS and clamped
C7_Witness ==
    \E w \in WorkerIds :
        LET ps == SelectSeq(workers[w].sent, IsProgress) IN
            /\ Len(ps) = 2
            /\ ps[1].pct < 100
            /\ ps[2].iter > ITERATIONS_LSTM
            /\ ps[2].pct = 100

\* C8: prepareTrainingData returns 3p + q samples, the entry of every
\* negative record once and of every positive record 3 times, whatever the
\* shuffle draws; 3p of them are positive; no record gives no sample.
C8_Oversampled ==
    prepPc = "done" =>
        LET n == Len(RAW_DATA)
            p == Cardinality({r \in 1..n : RAW_DATA[r] = 1})
            q == Cardinality({r \in 1..n : RAW_DATA[r] = 0})
        IN  /\ trainingData = samples
            /\ Len(trainingData) = 3 * p + q
            /\ Elems(trainingData) \subseteq 1..n
            /\ \A r \in 1..n :
                  Count(trainingData, r) = IF RAW_DATA[r] = 1 THEN 3 ELSE 1
            /\ Cardinality({k \in 1..Len(trainingData) :
                                RAW_DATA[trainingData[k]] = 1}) = 3 * p
            /\ n = 0 => trainingData = <<>>

\* 1 positive and 2 negatives: 5 samples, 3 of them positive, moved by the shuffle
C8_Witness ==
    /\ prepPc = "done"
    /\ RAW_DATA = <<1, 0, 0>>
    /\ Len(trainingData) = 5
    /\ trainingData # <<1, 1, 1, 2, 3>>

\* the train slice, validation and test of buildDataset partition the
\* records: pairwise disjoint, every record in exactly one of them, cut at
\* trainEnd and valEnd
SplitIsPartition ==
    splitPc \in {"shuffleTrain", "done"} =>
        LET n == Len(RAW_DATA)
        IN  /\ Elems(rawTrain) \cap Elems(validation) = {}
            /\ Elems(rawTrain) \cap Elems(test) = {}
            /\ Elems(validation) \cap Elems(test) = {}
            /\ \A r \in 1..n : Count(rawTrain \o validation \o test, r) = 1
            /\ Len(rawTrain) = TrainEnd(n)
            /\ Len(rawTrain) + Len(validation) = ValEnd(n)
            /\ Len(rawTrain) + Len(validation) + Len(test) = n

\* C9: for every record count n the three parts of buildDataset's split have
\* the sizes floor(0.70 n), floor(0.85 n) - floor(0.70 n) and
\* n - floor(0.85 n), which sum to n.
C9_SplitSizes ==
    trainEnd # -1 =>
        /\ trainEnd = (70 * count) \div 100
        /\ valEnd - trainEnd = (85 * count) \div 100 - (70 * count) \div 100
        /\ count - valEnd = count - (85 * count) \div 100
        /\ trainEnd + (valEnd - trainEnd) + (count - valEnd) = count

\* C10: oversampling touches train only: validation and test records appear
\* once and never in train; train holds each negative record of the slice
\* once and each positive one 3 times, so |train| = |slice| + 2 * positives.
C10_OversampleTrainOnly ==
    splitPc = "done" =>
        LET n == Len(RAW_DATA)
            pos == {k \in 1..Len(rawTrain) : RAW_DATA[rawTrain[k]] = 1}
        IN  /\ \A r \in Elems(validation) \cup Elems(test) :
                  /\ Count(validation \o test, r) = 1
                  /\ Count(train, r) = 0
            /\ \A r \in 1..n :
                  Count(train, r) =
                      IF r \notin Elems(rawTrain) THEN 0
                      ELSE IF RAW_DATA[r] = 1 THEN 3 ELSE 1
            /\ Len(train) = Len(rawTrain) + 2 * Cardinality(pos)

\* a positive and a negative record in the slice, a positive one held out
C10_Witness ==
    /\ splitPc = "done"
    /\ \E k \in 1..Len(rawTrain) : RAW_DATA[rawTrain[k]] = 1
    /\ \E k \in 1..Len(rawTrain) : RAW_DATA[rawTrain[k]] = 0
    /\ \E k \in 1..Len(test) : RAW_DATA[test[k]] = 1
    /\ validation # <<>>
    /\ train # Oversample(RAW_DATA, rawTrain)

\* C11: on an empty record set an evaluator does not fail and returns "0.0"
\* for the overall accuracy and for both recalls, evalSet and
\* evaluateAccuracy alike; the recall of a class without members is "0.0".
C11_EmptyIsZero ==
    /\ RAW_DATA = <<>> => evalPc # "threw"
    /\ (evalPc = "done" /\ RAW_DATA = <<>>) =>
          /\ evalResult.overall = ZeroString
          /\ evalResult.showRecall = ZeroString
          /\ evalResult.noshowRecall = ZeroString
    /\ evalPc = "done" =>
          /\ Count(RAW_DATA, 0) = 0 => evalResult.showRecall = ZeroString
          /\ Count(RAW_DATA, 1) = 0 => evalResult.noshowRecall = ZeroString

\* the number a string of digits writes
RECURSIVE ParseNat(_)
ParseNat(s) ==
    IF s = <<>> THEN 0
    ELSE 10 * ParseNat(SubSeq(s, 1, Len(s) - 1))
         + (CHOOSE d \in 0..9 : DecimalDigits[d + 1] = s[Len(s)])

\* s writes a number with one decimal place
IsFixed1(s) ==
    /\ Len(s) >= 3
    /\ s[Len(s) - 1] = "."
    /\ \A i \in (1..Len(s)) \ {Len(s) - 1} : \E d \in 1..10 : DecimalDigits[d] = s[i]

\* the tenths a string with one decimal place writes
Tenths(s) == ParseNat(SubSeq(s, 1, Len(s) - 2) \o <<s[Len(s)]>>)

Abs(x) == IF x < 0 THEN -x ELSE x

\* C12: once an evaluator has returned, tpShow + fnShow is the number q of
\* show records, tpNoshow + fnNoshow the number p of no-show records and
\* correct = tpShow + tpNoshow; if every record was predicted show and
\* p > 0, q > 0, the no-show recall is "0.0", the show recall "100.0" and the
\* overall accuracy is 100 q / (p + q) rounded to one decimal place.
C12_MajorityPredictor ==
    evalPc = "done" =>
        LET p == Count(RAW_DATA, 1)
            q == Count(RAW_DATA, 0)
        IN  /\ tally.tpShow + tally.fnShow = q
            /\ tally.tpNoshow + tally.fnNoshow = p
            /\ tally.correct = tally.tpShow + tally.tpNoshow
            /\ (p > 0 /\ q > 0 /\ Elems(predicted) = {0}) =>
                  /\ evalResult.noshowRecall = ZeroString
                  /\ evalResult.showRecall = <<"1", "0", "0", ".", "0">>
                  /\ IsFixed1(evalResult.overall)
                  /\ 2 * Abs(Tenths(evalResult.overall) * (p + q) - 1000 * q) <= p + q

\* evaluateAccuracy on two show records and a no-show, all predicted show
C12_Witness ==
    /\ evalPc = "done"
    /\ evalKind = "numeric"
    /\ RAW_DATA = <<0, 1, 0>>
    /\ predicted = <<0, 0, 0>>
    /\ evalResult.overall = <<"6", "6", ".", "7">>

\* s holds only a-z, 0-9 and single spaces, none of them first or last
CleanForm(s) ==
    /\ \A i \in 1..Len(s) : s[i] \in LowerChars \cup DigitChars \cup {" "}
    /\ s # <<>> => (s[1] # " " /\ s[Len(s)] # " ")
    /\ \A i \in 1..(Len(s) - 1) : ~(s[i] = " " /\ s[i + 1] = " ")

\* C13: cleanText returns for every string; what it returns holds only a-z,
\* 0-9 and single spaces, with no space first or last; and cleanText of that
\* result is the result itself.
C13_CleanTextIdempotent ==
    /\ \A i \in 1..Len(cleaned) : CleanForm(cleaned[i])
    /\ Len(cleaned) = 2 => cleaned[2] = cleaned[1]

\* an upper-case letter, a stripped character between two kinds of
\* whitespace, and a digit: cleaned to "a 1" by both calls
C13_Witness ==
    /\ cleanStr = <<"A", " ", "!", "\t", "1">>
    /\ cleaned = << <<"a", " ", "1">>, <<"a", " ", "1">> >>

\* C14: for min < max, denormalizeData(normalizeData(v, min, max), min, max)
\* is v within floating-point tolerance: the two differ by no more than
\* 2^-50 times |v| + |min| + |max|, a few units of the last place of the
\* doubles involved; and normalizeData(v, min, min) is 0.5 for every v.
C14_NormalizeRoundTrip ==
    /\ (normPc = "done" /\ NumLess(normMin, normMax)) =>
          ~NumLess(ExactMul(NumOf(1, -50),
                            ExactAdd(NumAbs(normValue),
                                     ExactAdd(NumAbs(normMin), NumAbs(normMax)))),
                   NumAbs(ExactSub(denormalized, normValue)))
    /\ (normPc # "start" /\ normMin = normMax) => normalized = NumOf(1, -1)

\* a value above the bounds whose quotient is rounded and which comes back
\* as a neighbouring double
C14_Witness ==
    /\ normPc = "done"
    /\ NumLess(normMin, normMax)
    /\ NumLess(normMax, normValue)
    /\ denormalized # normValue
    /\ NumLess(NumOf(1, 0), normalized)

\* the request of promise p went to a worker whose script failed to load and
\* which therefore handles no message
OnCrashedWorker(p) ==
    \E w \in WorkerIds :
        /\ workers[w].pc = "crashed"
        /\ \E i \in 1..Len(workers[w].listeners) : workers[w].listeners[i] = p

\* C15: every pending predictFromText promise eventually settles, unless its
\* request went to a worker that handles no message.
C15_PromisesSettle ==
    \A p \in PromiseIds :
        (promises[p].state = "pending")
            ~> (promises[p].state # "pending" \/ OnCrashedWorker(p))

\* C16: a promise settles only when the answer to a predict request is
\* dispatched, never on a message of the train branch, and a prediction it
\* resolves with carries the cleaned text of its own request.
C16_OwnResponse ==
    [][\A p \in PromiseIds :
          (promises[p].state = "pending" /\ promises'[p].state # "pending") =>
              \E w \in WorkerIds :
                  /\ workers'[w].delivered = workers[w].delivered + 1
                  /\ LET m == workers[w].sent[workers'[w].delivered]
                     IN  /\ m.src = "predict"
                         /\ m.type = "prediction" =>
                                m.cleaned = cleanText(promises[p].text)]_vars

\* C17: trainModel calls neither callback before its timer runs, exactly one
\* of onDone and onError, once, when it has run, and never both.
C17_ExactlyOneCallback ==
    /\ nnTimers > 0 => (nnDone = 0 /\ nnError = 0)
    /\ (nnCalls > 0 /\ nnTimers = 0) => nnDone + nnError = 1
    /\ ~(nnDone > 0 /\ nnError > 0)

====
